---- MODULE Spec2Model ----
(***************************************************************************)
(* ZohoClient (src/starter.py): the OAuth token lifecycle (load, authorize, *)
(* refresh, validate), the request dispatcher and create_invoice.           *)
(*                                                                          *)
(* A Python Optional value is None == <<>> or <<v>>; a JSON object is a     *)
(* record whose absent keys hold None, so that data.get(k) reads the field  *)
(* and data.get(k, d) is OrDefault(field, d).                               *)
(***************************************************************************)
EXTENDS Integers, Sequences, FiniteSets, TLC

\* phase: "none" (no client), "ready" (constructed), "failed" (__init__ raised)
\* access_token, refresh_token, token_expiry: the fields of the client
\* temp_file: the refresh-token file; now: the clock
\* origin: where the refresh token of the client comes from, "stored" (read
\*   from the file by __init__) or "authorized" (a successful get_grant_token)
\* last: the step just taken; inv: the create_invoice call under way
VARIABLES phase, access_token, refresh_token, token_expiry, temp_file, now,
          origin, last, inv

vars == <<phase, access_token, refresh_token, token_expiry, temp_file, now,
          origin, last, inv>>

\* ---------------------------------------------------------------- bounds
\* the clock (seconds since the first run) stops at MaxNow
MaxNow == 2
\* longest list of item identifiers / quantities given to create_invoice
MaxItems == 2

\* timedelta(seconds=data.get("expires_in", 3600))
DefaultExpiresIn == 3600

\* ------------------------------------------------------- Python values
None == <<>>
Some(v) == <<v>>

\* Python truthiness of an Optional[str]: None and "" are falsy
Truthy(o) == o # None /\ o[1] # ""

\* dict.get(key, default) on a field that is None when the key is absent
OrDefault(o, d) == IF o = None THEN d ELSE o[1]

\* -------------------------------------------------- the outside world
AccessTokens == {Some("a1"), Some("a2")}
RefreshTokens == {Some("r1"), Some("r2")}
ExpiresIn == {None, Some(1)}

\* answers of the token endpoint: a 200 with a JSON body (any key may be
\* missing), or another status whose body the client only logs
TokenBody == [access_token : AccessTokens \cup {None},
              refresh_token : RefreshTokens \cup {None},
              expires_in : ExpiresIn]
NoBody == [access_token |-> None, refresh_token |-> None, expires_in |-> None]
TokenResponses == {[status |-> 200, data |-> d] : d \in TokenBody}
                  \cup {[status |-> s, data |-> NoBody] : s \in {201, 400}}
\* no call to the token endpoint was made
NoResponse == [status |-> 0, data |-> NoBody]
\* the answers a handler that makes n calls to the token endpoint can get
Answers(n) == IF n > 0 THEN TokenResponses ELSE {NoResponse}

\* the item dictionaries of the resource API; a dictionary with no key is {}
EmptyItem == [name |-> None, description |-> None, rate |-> None]
ItemDicts == {EmptyItem,
              [name |-> Some("n1"), description |-> None, rate |-> Some(1)]}
ApiStatuses == {200, 304, 404, 500}
\* item = None: the JSON body has no "item" key
ApiResponses == [status : ApiStatuses, item : {None} \cup {Some(i) : i \in ItemDicts}]
\* no call to the resource API was made
NoApiResponse == [status |-> 0, item |-> None]
\* the answers a dispatcher call that sends n requests can get; only an item
\* lookup reads the body
ApiAnswers(n, lookup) ==
    IF n = 0 THEN {NoApiResponse}
    ELSE IF lookup THEN ApiResponses
    ELSE {[status |-> s, item |-> None] : s \in ApiStatuses}

\* the arguments of create_invoice: the first n of the item identifiers and
\* the quantities 1, 2, ... of the first m of them, n and m at most MaxItems,
\* so that the two lists are of equal or of different lengths
ItemIds == <<"i1", "i2", "i3", "i4">>
ItemLists == {SubSeq(ItemIds, 1, n) : n \in 0..MaxItems}
QuantityLists == {[i \in 1..m |-> i] : m \in 0..MaxItems}

\* ------------------------------------------------------ client state
\* the three token fields of a ZohoClient, as one value
Client(a, r, e) == [access_token |-> a, refresh_token |-> r, token_expiry |-> e]
Self == Client(access_token, refresh_token, token_expiry)
NoFile == [exists |-> FALSE, refresh_token |-> None]

\* (mutant) the file is not written
StoreRefreshToken_Skipped(c, f) == f

\* _store_refresh_token: json.dump({"refresh_token": self.refresh_token})
StoreRefreshToken(c, f) == [exists |-> TRUE, refresh_token |-> c.refresh_token]

\* _load_refresh_token: only when the file exists; data.get("refresh_token")
LoadRefreshToken(c, f) ==
    IF f.exists THEN [c EXCEPT !.refresh_token = f.refresh_token] ELSE c

\* (mutant) the status of the answer is not checked
GrantSucceeded_Unchecked(resp) == TRUE

\* response.status_code == 200 in get_grant_token
GrantSucceeded(resp) == resp.status = 200

\* response.status_code == 200 in refresh_access_token
RefreshSucceeded(resp) == resp.status = 200

\* datetime.now() + timedelta(seconds=data.get("expires_in", 3600))
Expiry(t, data) == Some(t + OrDefault(data.expires_in, DefaultExpiresIn))

\* get_grant_token(code): one POST to the token endpoint, answered by resp
GetGrantToken(c, f, t, resp) ==
    IF GrantSucceeded(resp)
    THEN LET c1 == Client(resp.data.access_token, resp.data.refresh_token,
                          Expiry(t, resp.data))
         IN [c |-> c1, f |-> StoreRefreshToken(c1, f), ok |-> TRUE]
    ELSE [c |-> c, f |-> f, ok |-> FALSE]

\* (mutant) a refresh token carried by the answer replaces the one held
RefreshTokenAfterRefresh_Rotated(c, resp) ==
    IF resp.data.refresh_token # None THEN resp.data.refresh_token ELSE c.refresh_token

\* the refresh token refresh_access_token keeps after a successful answer
RefreshTokenAfterRefresh(c, resp) == c.refresh_token

\* refresh_access_token: posts = number of POSTs to the token endpoint
RefreshAccessToken(c, f, t, resp) ==
    LET c1 == IF ~Truthy(c.refresh_token) THEN LoadRefreshToken(c, f) ELSE c
    IN  IF ~Truthy(c1.refresh_token)
        THEN [c |-> c1, ok |-> FALSE, posts |-> 0]
        ELSE IF RefreshSucceeded(resp)
        THEN [c |-> Client(resp.data.access_token,
                           RefreshTokenAfterRefresh(c1, resp),
                           Expiry(t, resp.data)),
              ok |-> TRUE, posts |-> 1]
        ELSE [c |-> c1, ok |-> FALSE, posts |-> 1]

\* (mutant) a token is still used in the second it expires
NeedsRefresh_Late(c, t) ==
    ~Truthy(c.access_token) \/ (c.token_expiry # None /\ t > c.token_expiry[1])

\* (mutant) a token is refreshed one second before it expires
NeedsRefresh_Early(c, t) ==
    ~Truthy(c.access_token) \/ (c.token_expiry # None /\ t + 1 >= c.token_expiry[1])

\* the condition of _ensure_valid_token
NeedsRefresh(c, t) ==
    ~Truthy(c.access_token) \/ (c.token_expiry # None /\ t >= c.token_expiry[1])

\* _ensure_valid_token
EnsureValidToken(c, f, t, resp) ==
    IF NeedsRefresh(c, t)
    THEN RefreshAccessToken(c, f, t, resp)
    ELSE [c |-> c, ok |-> TRUE, posts |-> 0]

\* (mutant) the token held is returned whatever _ensure_valid_token said
TokenOrNone_Unchecked(ok, c) == c.access_token

\* what get_access_token returns, given the result of _ensure_valid_token
TokenOrNone(ok, c) == IF ok THEN c.access_token ELSE None

\* get_access_token
GetAccessToken(c, f, t, resp) ==
    LET e == EnsureValidToken(c, f, t, resp)
    IN  [c |-> e.c, ok |-> e.ok, posts |-> e.posts, ret |-> TokenOrNone(e.ok, e.c)]

\* (mutant) the prompt is decided on the access token
NeedsAuthorization_ByAccessToken(c) == ~Truthy(c.access_token)

\* the condition under which _ensure_auth prompts for an authorization code
NeedsAuthorization(c) == ~Truthy(c.refresh_token)

\* _ensure_auth; raised = "ValueError" when the grant fails
EnsureAuth(c, f, t, grant, resp) ==
    IF NeedsAuthorization(c)
    THEN LET g == GetGrantToken(c, f, t, grant)
         IN  IF ~g.ok
             THEN [c |-> g.c, f |-> g.f, raised |-> "ValueError", prompts |-> 1,
                   grants |-> 1, posts |-> 0, ok |-> FALSE]
             ELSE LET e == EnsureValidToken(g.c, g.f, t, resp)
                  IN  [c |-> e.c, f |-> g.f, raised |-> "", prompts |-> 1,
                       grants |-> 1, posts |-> e.posts, ok |-> e.ok]
    ELSE LET e == EnsureValidToken(c, f, t, resp)
         IN  [c |-> e.c, f |-> f, raised |-> "", prompts |-> 0,
              grants |-> 0, posts |-> e.posts, ok |-> e.ok]

\* __init__: empty token state, _load_refresh_token, _ensure_auth
ZohoClientInit(f, t, grant, resp) ==
    EnsureAuth(LoadRefreshToken(Client(None, None, None), f), f, t, grant, resp)

\* (mutant) only a server error raises
RaiseForStatus_ServerOnly(status) == 500 <= status /\ status < 600

\* response.raise_for_status(): HTTPError for a 4xx or 5xx status
RaiseForStatus(status) == 400 <= status /\ status < 600

\* the token check of _make_request
MissingToken(tok) == ~Truthy(tok)

\* _make_request: calls = requests sent to the resource API, sent = the token
\* of the Authorization header
MakeRequest(c, f, t, resp, api) ==
    LET g == GetAccessToken(c, f, t, resp)
    IN  IF MissingToken(g.ret)
        THEN [c |-> g.c, ok |-> g.ok, posts |-> g.posts, ret |-> g.ret,
              raised |-> "ValueError", calls |-> 0, sent |-> None]
        ELSE [c |-> g.c, ok |-> g.ok, posts |-> g.posts, ret |-> g.ret,
              raised |-> IF RaiseForStatus(api.status) THEN "HTTPError" ELSE "",
              calls |-> 1, sent |-> g.ret]

\* ------------------------------------------------------------ create_invoice
\* zip(items, quantities, strict=False) stops at the shorter list
ZipLen(items, quantities) ==
    IF Len(items) <= Len(quantities) THEN Len(items) ELSE Len(quantities)

\* get_item: response.json().get("item", {})
GetItem(api) == OrDefault(api.item, EmptyItem)

\* truthiness of a dictionary: {} is falsy
TruthyDict(d) == d # EmptyItem

\* (mutant) the line item is appended whatever the lookup returned
AppendLineItem_Always(line_items, item_id, item, quantity) ==
    Append(line_items, [item_id |-> item_id, name |-> item.name,
                        description |-> item.description,
                        rate |-> item.rate, quantity |-> quantity])

\* the body of the loop of create_invoice after the lookup of item_id
AppendLineItem(line_items, item_id, item, quantity) ==
    IF TruthyDict(item)
    THEN Append(line_items, [item_id |-> item_id, name |-> item.name,
                             description |-> item.description,
                             rate |-> item.rate, quantity |-> quantity])
    ELSE line_items

\* ------------------------------------------------------------ the state
\* what the step just taken did: the operation, what it returned or raised,
\* the calls it made, the answers it consumed and the state it started from
Quiet(op) ==
    [op |-> op, ok |-> FALSE, ret |-> None, raised |-> "", posts |-> 0,
     grants |-> 0, calls |-> 0, prompts |-> 0, tok |-> NoResponse,
     grant |-> NoResponse, api_status |-> 0, sent |-> None,
     pre |-> [c |-> Client(None, None, None), f |-> NoFile]]

Pre == [c |-> Self, f |-> temp_file]

\* no create_invoice call is under way or was just finished
InvIdle ==
    [outcome |-> "none", items |-> <<>>, quantities |-> <<>>, idx |-> 0,
     line_items |-> <<>>, found |-> <<>>, lookups |-> 0, creates |-> 0,
     submitted |-> <<>>]

Running == inv.outcome = "running"

SetClient(c) ==
    /\ access_token' = c.access_token
    /\ refresh_token' = c.refresh_token
    /\ token_expiry' = c.token_expiry

Init ==
    /\ phase = "none"
    /\ access_token = None
    /\ refresh_token = None
    /\ token_expiry = None
    /\ temp_file = NoFile
    /\ now = 0
    /\ origin = "none"
    /\ last = Quiet("start")
    /\ inv = InvIdle

\* ZohoClient(...): the constructor
Construct ==
    /\ phase = "none"
    /\ \E grant \in Answers(ZohoClientInit(temp_file, now, NoResponse, NoResponse).grants) :
        \E resp \in Answers(ZohoClientInit(temp_file, now, grant, NoResponse).posts) :
         LET r == ZohoClientInit(temp_file, now, grant, resp)
         IN  /\ SetClient(r.c)
             /\ temp_file' = r.f
             /\ phase' = IF r.raised = "" THEN "ready" ELSE "failed"
             /\ origin' = IF r.raised # "" THEN "none"
                           ELSE IF r.prompts > 0 THEN "authorized" ELSE "stored"
             /\ last' = [Quiet("construct") EXCEPT
                           !.ok = r.ok, !.raised = r.raised, !.posts = r.posts,
                           !.grants = r.grants, !.prompts = r.prompts,
                           !.tok = resp, !.grant = grant,
                           !.pre = [c |-> Client(None, None, None), f |-> temp_file]]
    /\ UNCHANGED <<now, inv>>

\* the process ends; the refresh-token file stays for the next run
Restart ==
    /\ phase \in {"ready", "failed"}
    /\ ~Running
    /\ phase' = "none"
    /\ SetClient(Client(None, None, None))
    /\ origin' = "none"
    /\ last' = Quiet("restart")
    /\ inv' = InvIdle
    /\ UNCHANGED <<temp_file, now>>

\* client.get_grant_token(code)
Authorize ==
    /\ phase = "ready"
    /\ ~Running
    /\ \E grant \in TokenResponses :
         LET r == GetGrantToken(Self, temp_file, now, grant)
         IN  /\ SetClient(r.c)
             /\ temp_file' = r.f
             /\ last' = [Quiet("authorize") EXCEPT
                           !.ok = r.ok, !.grants = 1, !.grant = grant, !.pre = Pre]
             /\ origin' = IF r.ok THEN "authorized" ELSE origin
    /\ inv' = InvIdle
    /\ UNCHANGED <<phase, now>>

\* client.refresh_access_token()
Refresh ==
    /\ phase = "ready"
    /\ ~Running
    /\ \E resp \in Answers(RefreshAccessToken(Self, temp_file, now, NoResponse).posts) :
         LET r == RefreshAccessToken(Self, temp_file, now, resp)
         IN  /\ SetClient(r.c)
             /\ last' = [Quiet("refresh") EXCEPT
                           !.ok = r.ok, !.posts = r.posts,
                           !.tok = resp,
                           !.pre = Pre]
    /\ inv' = InvIdle
    /\ UNCHANGED <<phase, temp_file, now, origin>>

\* client.get_access_token()
GetToken ==
    /\ phase = "ready"
    /\ ~Running
    /\ \E resp \in Answers(GetAccessToken(Self, temp_file, now, NoResponse).posts) :
         LET r == GetAccessToken(Self, temp_file, now, resp)
         IN  /\ SetClient(r.c)
             /\ last' = [Quiet("get_access_token") EXCEPT
                           !.ok = r.ok, !.ret = r.ret, !.posts = r.posts,
                           !.tok = resp,
                           !.pre = Pre]
    /\ inv' = InvIdle
    /\ UNCHANGED <<phase, temp_file, now, origin>>

\* a resource method that is one dispatcher call (list_invoices, get_contact, ...)
Request ==
    /\ phase = "ready"
    /\ ~Running
    /\ \E resp \in Answers(MakeRequest(Self, temp_file, now, NoResponse, NoApiResponse).posts) :
        \E api \in ApiAnswers(MakeRequest(Self, temp_file, now, resp, NoApiResponse).calls, FALSE) :
         LET r == MakeRequest(Self, temp_file, now, resp, api)
         IN  /\ SetClient(r.c)
             /\ last' = [Quiet("request") EXCEPT
                           !.ok = r.ok, !.ret = r.ret, !.posts = r.posts,
                           !.raised = r.raised, !.calls = r.calls, !.sent = r.sent,
                           !.tok = resp, !.api_status = api.status,
                           !.pre = Pre]
    /\ inv' = InvIdle
    /\ UNCHANGED <<phase, temp_file, now, origin>>

\* a second passes
Tick ==
    /\ now < MaxNow
    /\ now' = now + 1
    /\ last' = Quiet("tick")
    /\ inv' = IF Running THEN inv ELSE InvIdle
    /\ UNCHANGED <<phase, access_token, refresh_token, token_expiry, temp_file, origin>>

\* create_invoice(customer_id, items, quantities) is entered
CreateInvoice ==
    /\ phase = "ready"
    /\ ~Running
    /\ \E items \in ItemLists, quantities \in QuantityLists :
         inv' = [InvIdle EXCEPT !.outcome = "running", !.items = items,
                                !.quantities = quantities]
    /\ last' = Quiet("create_invoice")
    /\ UNCHANGED <<phase, access_token, refresh_token, token_expiry, temp_file,
                   now, origin>>

\* one turn of the loop of create_invoice: get_item, then the append
LookupItem ==
    /\ Running
    /\ inv.idx < ZipLen(inv.items, inv.quantities)
    /\ \E resp \in Answers(MakeRequest(Self, temp_file, now, NoResponse, NoApiResponse).posts) :
        \E api \in ApiAnswers(MakeRequest(Self, temp_file, now, resp, NoApiResponse).calls, TRUE) :
         LET r == MakeRequest(Self, temp_file, now, resp, api)
             i == inv.idx + 1
             item == GetItem(api)
         IN  /\ SetClient(r.c)
             /\ last' = [Quiet("get_item") EXCEPT
                           !.ok = r.ok, !.ret = r.ret, !.posts = r.posts,
                           !.raised = r.raised, !.calls = r.calls, !.sent = r.sent,
                           !.api_status = api.status]
             /\ inv' = IF r.raised # ""
                        THEN [inv EXCEPT !.outcome = "raised",
                                         !.lookups = @ + r.calls]
                        ELSE [inv EXCEPT
                                !.idx = i, !.lookups = @ + r.calls,
                                !.found = Append(@, item),
                                !.line_items = AppendLineItem(@, inv.items[i], item,
                                                              inv.quantities[i])]
    /\ UNCHANGED <<phase, temp_file, now, origin>>

\* the end of create_invoice: the POST of the line items
SubmitInvoice ==
    /\ Running
    /\ inv.idx = ZipLen(inv.items, inv.quantities)
    /\ \E resp \in Answers(MakeRequest(Self, temp_file, now, NoResponse, NoApiResponse).posts) :
        \E api \in ApiAnswers(MakeRequest(Self, temp_file, now, resp, NoApiResponse).calls, FALSE) :
         LET r == MakeRequest(Self, temp_file, now, resp, api)
         IN  /\ SetClient(r.c)
             /\ last' = [Quiet("post_invoice") EXCEPT
                           !.ok = r.ok, !.ret = r.ret, !.posts = r.posts,
                           !.raised = r.raised, !.calls = r.calls, !.sent = r.sent,
                           !.api_status = api.status]
             /\ inv' = [inv EXCEPT
                          !.outcome = IF r.raised # "" THEN "raised" ELSE "returned",
                          !.creates = @ + r.calls,
                          !.submitted = IF r.calls > 0 THEN inv.line_items ELSE <<>>]
    /\ UNCHANGED <<phase, temp_file, now, origin>>

\* ------------------------------------------------------------ properties
\* the token state and the file the step just taken started from
PreC == last.pre.c
PreF == last.pre.f
ClientUnchanged == Self = PreC /\ temp_file = PreF

\* the step just taken was get_access_token on an expired token, with a
\* refresh token in memory
ExpiredCall ==
    /\ last.op = "get_access_token"
    /\ Truthy(PreC.refresh_token)
    /\ Truthy(PreC.access_token)
    /\ PreC.token_expiry # None
    /\ PreC.token_expiry[1] <= now

\* C1: get_access_token on a client that holds a refresh token and an access
\* token whose expiry is at or before the current time makes exactly one call
\* to the token endpoint (a refresh, no authorization), and when the answer is
\* a success it returns the access token of that answer, which is then the
\* one held.
C1_ExpiredTokenRefreshedOnce ==
    ExpiredCall =>
        /\ last.posts = 1
        /\ last.grants = 0
        /\ last.calls = 0
        /\ last.tok.status = 200 =>
              /\ last.ok
              /\ last.ret = last.tok.data.access_token
              /\ access_token = last.tok.data.access_token

C1_Witness ==
    /\ ExpiredCall
    /\ last.tok.status = 200
    /\ Truthy(last.ret)
    /\ last.ret # PreC.access_token

\* the step just taken was get_access_token on a token that is present and
\* not yet expired
FreshCall ==
    /\ last.op = "get_access_token"
    /\ Truthy(PreC.access_token)
    /\ PreC.token_expiry # None
    /\ PreC.token_expiry[1] > now

\* C2: get_access_token on a present access token whose expiry is strictly
\* after the current time makes no network call, returns the token held and
\* leaves access token, refresh token, expiry and the file as they were.
C2_FreshTokenNoNetwork ==
    FreshCall =>
        /\ last.posts = 0
        /\ last.grants = 0
        /\ last.calls = 0
        /\ last.ok
        /\ last.ret = PreC.access_token
        /\ ClientUnchanged

\* a fresh call on a token whose last second has come
C2_Witness ==
    /\ FreshCall
    /\ PreC.token_expiry[1] = now + 1
    /\ last.ret = PreC.access_token
    /\ last.posts = 0

\* the step just taken was a construction that found a refresh token stored
StoredConstruction ==
    /\ last.op = "construct"
    /\ PreF.exists
    /\ Truthy(PreF.refresh_token)

\* the refresh the step just taken made, if any, was answered with success
\* and an access token
RefreshAnsweredWithToken ==
    last.posts > 0 => last.tok.status = 200 /\ Truthy(last.tok.data.access_token)

\* C3: a construction that finds a refresh token in the file neither prompts
\* nor exchanges an authorization code, and on a client so constructed a
\* get_access_token whose refresh (if one is made) is answered with success
\* and an access token returns a non-empty token.
C3_StoredTokenNoPrompt ==
    /\ StoredConstruction =>
          /\ last.prompts = 0
          /\ last.grants = 0
          /\ last.raised = ""
          /\ phase = "ready"
          /\ refresh_token = PreF.refresh_token
          /\ RefreshAnsweredWithToken => Truthy(access_token)
    /\ (last.op = "get_access_token" /\ origin = "stored" /\ RefreshAnsweredWithToken)
          => Truthy(last.ret)

\* a token returned, after a refresh, by a client built from the stored token
C3_Witness ==
    /\ last.op = "get_access_token"
    /\ origin = "stored"
    /\ last.posts = 1
    /\ Truthy(last.ret)

\* the step just taken made an authorization-code exchange that succeeded
GrantedStep ==
    /\ last.op \in {"construct", "authorize"}
    /\ last.grants = 1
    /\ last.grant.status = 200

\* C4: a construction that finds no refresh token stored exchanges an
\* authorization code, and after every successful exchange (at construction
\* or later) the file holds exactly the refresh token of the answer, equal to
\* the one in memory; the construction then succeeds.
C4_GrantPersistsRefreshToken ==
    /\ (last.op = "construct" /\ ~Truthy(PreF.refresh_token))
          => last.prompts = 1 /\ last.grants = 1
    /\ GrantedStep =>
          /\ temp_file.exists
          /\ temp_file.refresh_token = last.grant.data.refresh_token
          /\ refresh_token = last.grant.data.refresh_token
          /\ last.op = "construct" => phase = "ready" /\ last.raised = ""

\* a construction without a stored token that persisted the token it was granted
C4_Witness ==
    /\ last.op = "construct"
    /\ ~PreF.exists
    /\ GrantedStep
    /\ Truthy(refresh_token)
    /\ temp_file.refresh_token = refresh_token

\* C5: get_grant_token answered with a status other than 200 (so with any
\* non-success status) returns False without raising and leaves the token
\* state and the file unchanged; at construction it makes __init__ raise, and
\* no client is produced.
C5_FailedGrant ==
    /\ (last.op = "authorize" /\ last.grant.status # 200) =>
          /\ ~last.ok
          /\ last.raised = ""
          /\ ClientUnchanged
    /\ (last.op = "construct" /\ last.grants = 1 /\ last.grant.status # 200) =>
          /\ last.raised = "ValueError"
          /\ phase = "failed"
          /\ temp_file = PreF

\* a failed exchange on a client that holds tokens, and a failed construction
C5_Witness ==
    \/ /\ last.op = "authorize"
       /\ last.grant.status = 400
       /\ Truthy(access_token)
       /\ temp_file.exists
    \/ /\ last.op = "construct"
       /\ last.grant.status = 400
       /\ phase = "failed"

\* C6 as stated: a resource call answered with any status outside 200..299
\* raises, after exactly one request.
C6_NonSuccessRaises ==
    (last.op = "request" /\ last.calls > 0
       /\ ~(200 <= last.api_status /\ last.api_status <= 299))
    => last.raised = "HTTPError" /\ last.calls = 1

\* C6 (amended): a resource call answered with a 4xx or 5xx status raises an
\* HTTP error instead of returning the response, after exactly one request to
\* the resource API.
C6_ErrorStatusRaisesOnce ==
    (last.op = "request" /\ last.calls > 0
       /\ 400 <= last.api_status /\ last.api_status <= 599)
    => last.raised = "HTTPError" /\ last.calls = 1

C6_Witness ==
    /\ last.op = "request"
    /\ last.api_status = 404
    /\ last.raised = "HTTPError"
    /\ last.calls = 1

\* the number of pairs zip yields, stated on the call under way
Pairs ==
    IF Len(inv.items) <= Len(inv.quantities) THEN Len(inv.items) ELSE Len(inv.quantities)

\* the positions whose lookup returned an item
Kept == SelectSeq([i \in 1..Len(inv.found) |-> i], LAMBDA i : inv.found[i] # EmptyItem)

\* C7 as stated: a create_invoice that returns has made exactly N lookups, N
\* the number of item identifiers, and one creation call.
C7_NLookupsOneCreate ==
    inv.outcome = "returned" => inv.lookups = Len(inv.items) /\ inv.creates = 1

\* C7 (amended): a create_invoice that returns has made exactly min(N, number
\* of quantities) lookups followed by exactly one creation call, and the line
\* items it submitted are the looked-up pairs whose lookup returned an item,
\* once each, in input order, each with its own quantity; one that raises has
\* made no more lookups than that, and a creation call only after all of them.
C7_LookupsThenCreate ==
    /\ inv.lookups <= Pairs
    /\ inv.creates <= 1
    /\ inv.creates = 1 => inv.lookups = Pairs
    /\ inv.outcome = "returned" =>
          /\ inv.lookups = Pairs
          /\ inv.creates = 1
          /\ Len(inv.found) = Pairs
          /\ Len(inv.submitted) = Len(Kept)
          /\ \A j \in 1..Len(Kept) :
                /\ inv.submitted[j].item_id = inv.items[Kept[j]]
                /\ inv.submitted[j].quantity = inv.quantities[Kept[j]]
                /\ inv.submitted[j].name = inv.found[Kept[j]].name
                /\ inv.submitted[j].rate = inv.found[Kept[j]].rate
                /\ inv.submitted[j].description = inv.found[Kept[j]].description

\* an invoice of two items submitted without the first, whose lookup found nothing
C7_Witness ==
    /\ inv.outcome = "returned"
    /\ Len(inv.items) = 2
    /\ inv.lookups = 2
    /\ inv.found[1] = EmptyItem
    /\ Len(inv.submitted) = 1
    /\ inv.submitted[1].item_id = inv.items[2]
    /\ inv.submitted[1].quantity = 2

\* the token the step just taken started from is absent or expired
PreStale ==
    \/ ~Truthy(PreC.access_token)
    \/ PreC.token_expiry # None /\ PreC.token_expiry[1] <= now

\* no valid token could be obtained by the step just taken: no refresh token
\* in memory or in the file, or a refresh answered with another status than
\* 200, or with no access token
Unobtainable ==
    /\ PreStale
    /\ \/ ~Truthy(PreC.refresh_token) /\ ~Truthy(PreF.refresh_token)
       \/ last.posts > 0 /\ last.tok.status # 200
       \/ last.posts > 0 /\ last.tok.data.access_token = None

\* C8: when no valid access token can be obtained, get_access_token returns
\* None and the dispatcher raises before any request to the resource API; no
\* request is ever sent to the resource API without a token.
C8_NoTokenNoRequest ==
    /\ (last.op \in {"get_access_token", "request"} /\ Unobtainable) =>
          /\ last.ret = None
          /\ last.op = "request" => last.raised = "ValueError" /\ last.calls = 0
    /\ last.calls > 0 => Truthy(last.sent) /\ last.sent = access_token

\* a resource call aborted because the refresh of an expired token failed
C8_Witness ==
    /\ last.op = "request"
    /\ Truthy(PreC.access_token)
    /\ Unobtainable
    /\ last.posts = 1
    /\ last.raised = "ValueError"
    /\ last.calls = 0

\* C9 as stated: whenever _ensure_valid_token returns True (seen through
\* get_access_token) the client holds an access token that is present and
\* whose expiry is strictly after the current time.
C9_TrueMeansFreshToken ==
    (last.op = "get_access_token" /\ last.ok) =>
        /\ Truthy(access_token)
        /\ token_expiry # None
        /\ token_expiry[1] > now

\* C10: refresh_access_token, get_access_token and a resource call never
\* write the file and never change the refresh token of a constructed client,
\* whatever the answer of the token endpoint carries; when the refresh fails
\* the access token and the expiry stay too; and the file of a constructed
\* client holds the refresh token held in memory.
C10_RefreshKeepsRefreshToken ==
    /\ last.op \in {"refresh", "get_access_token", "request"} =>
          /\ temp_file = PreF
          /\ refresh_token = PreC.refresh_token
          /\ ~last.ok => access_token = PreC.access_token
                          /\ token_expiry = PreC.token_expiry
    /\ phase = "ready" => temp_file.exists /\ temp_file.refresh_token = refresh_token

\* a successful refresh whose answer carried another refresh token, ignored
C10_Witness ==
    /\ last.op = "refresh"
    /\ last.ok
    /\ Truthy(last.tok.data.refresh_token)
    /\ last.tok.data.refresh_token # refresh_token
    /\ refresh_token = PreC.refresh_token
    /\ temp_file = PreF

\* the runs of the token lifecycle and of the resource methods that are one
\* dispatcher call, over any number of process runs
Next ==
    \/ Construct
    \/ Restart
    \/ Authorize
    \/ Refresh
    \/ GetToken
    \/ Request
    \/ Tick

Spec == Init /\ [][Next]_vars

\* the runs of one client that creates invoices: create_invoice is a loop of
\* dispatcher calls, each its own step, with the clock free to advance between
NextInvoice ==
    \/ Construct
    \/ Tick
    \/ CreateInvoice
    \/ LookupItem
    \/ SubmitInvoice

SpecInvoice == Init /\ [][NextInvoice]_vars

====
